---- MODULE Spec2Model ----
\* A model of kgtk/join/kgtkreader.py: the KgtkReader record validator
\* (__next__), its error dispatcher (yelp), close(), open() with its header
\* and schema resolution, and the line sources it pulls from (a text
\* wrapper, or the parallel gunzip worker and queue).
EXTENDS Integers, Sequences, FiniteSets, TLC

\* ---------------------------------------------------------------- bounds

\* Most raw lines a source delivers before it is exhausted.
MaxLines == 3
\* Largest error_limit configured.
MaxErrorLimit == 2
\* Most close() calls the caller makes.
MaxCloses == 2
\* Largest gzip_queue_size configured.
MaxQueue == 2

\* ------------------------------------------------------- text primitives

\* Characters are one-character strings; a line is a sequence of them.
LineEndings == {"\r", "\n"}

Whitespace == {" ", "\t", "\n", "\r"}

\* KgtkFormat.COLUMN_SEPARATOR: the default column separator, a tab.
COLUMN_SEPARATOR == "\t"

\* KgtkFormat.COMMENT_INDICATOR: the comment marker character.
COMMENT_INDICATOR == "#"

\* The raw lines a text source delivers, as a line iterator yields them
\* (never the empty string): one line of every kind the validator tells
\* apart, against a header of two columns.
RawLines ==
    { <<"\n">>,                              \* empty
      <<"#", "a", "\n">>,                    \* comment
      <<"#", "\t", "a", "\n">>,              \* comment marker, two fields
      <<" ", "\n">>,                         \* whitespace, one field
      <<"\t", "\n">>,                        \* whitespace, two empty fields
      <<"b", "\n">>,                         \* one field: short
      <<"a", "\t", "a", "\n">>,              \* two fields
      <<"a", "\t", "a">>,                    \* two fields, no line ending
      <<"a", "\t", "a", "\r", "\n">>,        \* two fields, CR LF
      <<"\t", "a", "\n">>,                   \* two fields, first blank
      <<"a", "\t", "\n">>,                   \* two fields, second blank
      <<"a", "\t", "a", "\t", "a", "\n">> }  \* three fields: long

\* The raw lines of a file whose header has three columns or more.
WideLines ==
    { <<"\n">>,                                        \* empty
      <<"#", "a", "\n">>,                              \* comment
      <<"b", "\n">>,                                   \* one field
      <<"a", "\t", "b", "\n">>,                        \* two fields
      <<"a", "\t", "a", "\t", "a", "\n">>,             \* three fields
      <<"\t", "a", "\t", "a", "\n">>,                  \* first blank
      <<" ", "\t", "a", "\t", "a", "\n">>,             \* first a space
      <<"a", "\t", "\t", "a", "\n">>,                  \* second blank
      <<"a", "\t", "a", "\t", "\n">>,                  \* third blank
      <<"\t", "a", "\t", "\n">>,                       \* first and third blank
      <<"a", "\t", "a", "\t", "a", "\t", "a", "\n">>,  \* four fields
      <<"\t", "a", "\t", "a", "\t", "a", "\n">>,       \* four fields, first blank
      <<"a", "\t", "b", "\t", "a", "\t", "b", "\t", "c", "\t", "c", "\n">> }
                                                       \* six fields

\* The raw lines the gunzip worker decodes.
GzipLines ==
    { <<"\n">>, <<"#", "a", "\n">>, <<"b", "\n">>, <<"a", "\t", "a", "\n">> }

\* str.rstrip("\r\n"): drop every trailing line-ending character.
RECURSIVE rstrip(_)
rstrip(line) ==
    IF Len(line) > 0 /\ line[Len(line)] \in LineEndings
    THEN rstrip(SubSeq(line, 1, Len(line) - 1))
    ELSE line

\* str.split(sep) for a one-character separator: the stretches between
\* consecutive separators, in order; always at least one field.
split(line, sep) ==
    LET seps == {i \in 1..Len(line) : line[i] = sep}
        count == Cardinality(seps) + 1
        nth(k) == CHOOSE i \in seps : Cardinality({j \in seps : j < i}) = k - 1
        from(k) == IF k = 1 THEN 1 ELSE nth(k - 1) + 1
        to(k) == IF k = count THEN Len(line) ELSE nth(k) - 1
    IN  [k \in 1..count |-> SubSeq(line, from(k), to(k))]

\* str.isspace(): at least one character and all of them whitespace.
isspace(line) == Len(line) > 0 /\ \A i \in 1..Len(line) : line[i] \in Whitespace

\* ------------------------------------------------------------------ state

VARIABLES
    cfg,                    \* the arguments of open, then the reader's fields
    opened,                 \* how the open call ended; "no" before it
    source_kind,            \* the line source _openfile built
    consumed,               \* raw lines taken from the line source so far
    data_lines_read,
    data_lines_passed,
    data_lines_ignored,
    data_errors_reported,
    source,                 \* the line source: "open" or "closed"
    pull,                   \* where the latest __next__ call stands
    values,                 \* the record the latest __next__ returned
    close_calls,            \* close() calls made so far
    worker,                 \* the gunzip worker process
    queue,                  \* the worker's bounded line queue
    decoded,                \* lines the worker has put, in order
    received,               \* lines the consumer has taken, in order
    call,                   \* the latest merge_columns or to_map call
    log                     \* history: the lines pulled, the records returned

vars == <<cfg, opened, source_kind, consumed, data_lines_read, data_lines_passed, data_lines_ignored,
          data_errors_reported, source, pull, values, close_calls,
          worker, queue, decoded, received, call, log>>

counters == <<data_lines_read, data_lines_passed, data_lines_ignored,
              data_errors_reported>>

\* KgtkReaderErrorAction
KgtkReaderErrorAction == {"SILENT", "STDOUT", "STDERR", "VALUEERROR"}

column_names == cfg.column_names
column_count == cfg.column_count
column_separator == cfg.column_separator
error_action == cfg.error_action
error_limit == cfg.error_limit
ignore_empty_lines == cfg.ignore_empty_lines
ignore_comment_lines == cfg.ignore_comment_lines
ignore_whitespace_lines == cfg.ignore_whitespace_lines
ignore_short_lines == cfg.ignore_short_lines
ignore_long_lines == cfg.ignore_long_lines
fill_short_lines == cfg.fill_short_lines
truncate_long_lines == cfg.truncate_long_lines
gzip_in_parallel == cfg.gzip_in_parallel
gzip_queue_size == cfg.gzip_queue_size
column_name_map == cfg.column_name_map
node1_column_idx == cfg.node1_column_idx
node2_column_idx == cfg.node2_column_idx
label_column_idx == cfg.label_column_idx
id_column_idx == cfg.id_column_idx
is_edge_file == cfg.is_edge_file
is_node_file == cfg.is_node_file
ignore_blank_node1_lines == cfg.ignore_blank_node1_lines
ignore_blank_node2_lines == cfg.ignore_blank_node2_lines
ignore_blank_id_lines == cfg.ignore_blank_id_lines
force_column_names == cfg.force_column_names
skip_first_record == cfg.skip_first_record
compression_type == cfg.compression_type
file_path == cfg.file_path

\* KgtkReader.Mode
Mode == {"NONE", "EDGE", "NODE", "AUTO"}

\* An optional list argument: None, or a list of names.
None == [given |-> FALSE, names |-> <<>>]
Some(names) == [given |-> TRUE, names |-> names]

\* A file path: its name and its suffix. NoPath stands for file_path=None.
NoPath == [name |-> "", suffix |-> ""]
PathOf(name, suffix) == [name |-> name, suffix |-> suffix]

\* KgtkFormat.build_column_name_map: name -> index (from 0), enumerating
\* the names in order, a later duplicate overwriting an earlier index.
build_column_name_map(names) ==
    [ n \in {names[i] : i \in 1..Len(names)} |->
        CHOOSE idx \in 0..(Len(names) - 1) :
            /\ names[idx + 1] = n
            /\ \A later \in (idx + 1)..(Len(names) - 1) : names[later + 1] # n ]

\* The end-of-stream value the worker plugs its queue with: not a line.
Sentinel == <<"None">>

\* What next(self.source) can give besides a line.
StopIteration == <<"StopIteration">>
SourceError == <<"SourceError">>

\* ---------------------------------------------------------- configuration

\* The header the readers are opened on: two columns. A name is a field
\* of the header line, written as one token.
Header == << <<"id">>, <<"label">> >>

\* A reader's options as KgtkReader.open passes them to the constructor,
\* the line options at their keyword defaults; column_count is
\* len(column_names).
BaseConfig ==
    [ mode                    |-> "NONE",
      file_path               |-> PathOf("f", ".tsv"),
      compression_type        |-> "None",
      force_column_names      |-> None,
      skip_first_record       |-> FALSE,
      column_names            |-> Header,
      column_name_map         |-> build_column_name_map(Header),
      column_count            |-> Len(Header),
      node1_column_idx        |-> -1,
      node2_column_idx        |-> -1,
      label_column_idx        |-> -1,
      id_column_idx           |-> -1,
      is_edge_file            |-> FALSE,
      is_node_file            |-> FALSE,
      ignore_blank_node1_lines |-> FALSE,
      ignore_blank_node2_lines |-> FALSE,
      ignore_blank_id_lines   |-> TRUE,
      column_separator        |-> COLUMN_SEPARATOR,
      error_action            |-> "STDOUT",
      error_limit             |-> MaxErrorLimit,
      ignore_empty_lines      |-> TRUE,
      ignore_comment_lines    |-> TRUE,
      ignore_whitespace_lines |-> TRUE,
      ignore_short_lines      |-> TRUE,
      ignore_long_lines       |-> TRUE,
      fill_short_lines        |-> FALSE,
      truncate_long_lines     |-> FALSE,
      gzip_in_parallel        |-> FALSE,
      gzip_queue_size         |-> MaxQueue ]

\* error_limit: any integer; only a positive one limits the reports.
ErrorLimits == (-1)..MaxErrorLimit

\* Readers over a text source, with every combination of the line options.
TextConfigs ==
    { [BaseConfig EXCEPT !.error_action = a, !.error_limit = l,
                       !.ignore_empty_lines = f[1],
                       !.ignore_comment_lines = f[2],
                       !.ignore_whitespace_lines = f[3],
                       !.ignore_short_lines = f[4],
                       !.ignore_long_lines = f[5],
                       !.fill_short_lines = f[6],
                       !.truncate_long_lines = f[7]] :
        a \in KgtkReaderErrorAction, l \in ErrorLimits,
        f \in [1..7 -> BOOLEAN] }

\* Readers over the parallel gunzip source, with the default line options.
GunzipConfigs ==
    { [BaseConfig EXCEPT !.error_action = a, !.error_limit = l,
                       !.file_path = PathOf("f", ".gz"),
                       !.gzip_in_parallel = TRUE,
                       !.gzip_queue_size = n] :
        a \in KgtkReaderErrorAction, l \in ErrorLimits, n \in 1..MaxQueue }

\* No merge_columns or to_map call made yet.
NoCall == [op |-> "none", arg |-> <<>>, raised |-> FALSE, result |-> <<>>]

\* History of the pulls: not kept, or kept from the first pull on.
NoLog == [on |-> FALSE, lines |-> <<>>, records |-> <<>>]

EmptyLog == [on |-> TRUE, lines |-> <<>>, records |-> <<>>]

\* The reader as KgtkReader.open returns it: the header line consumed,
\* counters at their defaults, the source open, and the gunzip worker
\* started in parallel mode.
InitFrom(configs, history) ==
    /\ cfg \in configs
    /\ opened = "ok"
    /\ source_kind = IF cfg.gzip_in_parallel THEN "GunzipProcess" ELSE "text"
    /\ consumed = 1
    /\ data_lines_read = 0
    /\ data_lines_passed = 0
    /\ data_lines_ignored = 0
    /\ data_errors_reported = 0
    /\ source = "open"
    /\ pull = "idle"
    /\ values = <<>>
    /\ close_calls = 0
    /\ worker = IF cfg.gzip_in_parallel THEN "running" ELSE "none"
    /\ queue = <<>>
    /\ decoded = <<>>
    /\ received = <<>>
    /\ call = NoCall
    /\ log = history

\* The same, with no history kept.
InitWith(configs) == InitFrom(configs, NoLog)

Init == InitWith(TextConfigs)

InitGunzip == InitWith(GunzipConfigs)

\* Readers over a text source that never report past the limit's reach:
\* the width and empty-line options, silent or reporting to stdout.
PullConfigs ==
    { [BaseConfig EXCEPT !.error_action = a,
                       !.ignore_empty_lines = f[1],
                       !.ignore_short_lines = f[2],
                       !.ignore_long_lines = f[3],
                       !.fill_short_lines = f[4],
                       !.truncate_long_lines = f[5]] :
        a \in {"SILENT", "STDOUT"}, f \in [1..5 -> BOOLEAN] }

\* The reader with the history of its pulls kept.
InitPulls == InitFrom(PullConfigs, EmptyLog)

\* ------------------------------------------------------------ line source

\* The data lines of a file go with its header: the lines a source may
\* deliver after a header of column_count columns.
DataLines == IF column_count = Len(Header) THEN RawLines ELSE WideLines

\* ClosableIter.close on the line source: releases the handle, terminates
\* the worker if it is still running and releases its queue; safe to repeat.
source_close ==
    /\ source' = "closed"
    /\ worker' = IF worker = "running" THEN "terminated" ELSE worker
    /\ queue' = <<>>

\* ClosableIterTextIOWrapper.__next__: the next raw line of the text
\* stream, or StopIteration at its end.
text_next(item) ==
    IF source = "closed"
    THEN item \in {StopIteration, SourceError}
    ELSE \/ item \in DataLines /\ data_lines_read < MaxLines
         \/ item = StopIteration

\* GunzipProcess.__next__: blocks on the empty queue, takes its head and
\* turns the sentinel into StopIteration.
gunzip_next(item) ==
    IF source = "closed"
    THEN item \in {StopIteration, SourceError}
    ELSE /\ queue # <<>>
         /\ item = IF Head(queue) = Sentinel THEN StopIteration ELSE Head(queue)

\* A mis-sized queue: one slot more than configured.
queue_maxsize_plus_one == gzip_queue_size + 1

\* Queue(gzip_queue_size): the capacity the worker's queue is built with.
queue_maxsize == gzip_queue_size

\* GunzipProcess.run: the worker decodes one line and puts it, blocking on
\* the full queue; at the end of the stream it puts the sentinel and exits.
run ==
    /\ worker = "running"
    /\ Len(queue) < queue_maxsize
    /\ \/ \E line \in GzipLines :
            /\ Len(decoded) < MaxLines
            /\ queue' = Append(queue, line)
            /\ decoded' = Append(decoded, line)
            /\ UNCHANGED worker
       \/ /\ queue' = Append(queue, Sentinel)
          /\ worker' = "finished"
          /\ UNCHANGED decoded
    /\ UNCHANGED <<cfg, call, log, opened, source_kind, consumed, counters, source,
                   pull, values, close_calls, received>>

\* ------------------------------------------------------------- dispatcher

\* yelp with the SILENT early return missing: a silent line is tallied and
\* limited like a reported one.
yelp_silent_counted ==
    /\ data_lines_ignored' = data_lines_ignored + 1
    /\ IF error_action = "VALUEERROR"
       THEN /\ UNCHANGED data_errors_reported
            /\ pull' = "ValueError"
       ELSE /\ data_errors_reported' = data_errors_reported + 1
            /\ pull' = IF error_limit > 0 /\ data_errors_reported' >= error_limit
                       THEN "ValueError"
                       ELSE "running"

\* yelp with the limit test off by one: > where the code has >=.
yelp_limit_exceeded ==
    /\ data_lines_ignored' = data_lines_ignored + 1
    /\ IF error_action = "SILENT"
       THEN /\ UNCHANGED data_errors_reported
            /\ pull' = "running"
       ELSE IF error_action = "VALUEERROR"
       THEN /\ UNCHANGED data_errors_reported
            /\ pull' = "ValueError"
       ELSE /\ data_errors_reported' = data_errors_reported + 1
            /\ pull' = IF error_limit > 0 /\ data_errors_reported' > error_limit
                       THEN "ValueError"
                       ELSE "running"

\* yelp with VALUEERROR handled as one more reporting action: it raises
\* only through the limit.
yelp_valueerror_reported ==
    /\ data_lines_ignored' = data_lines_ignored + 1
    /\ IF error_action = "SILENT"
       THEN /\ UNCHANGED data_errors_reported
            /\ pull' = "running"
       ELSE /\ data_errors_reported' = data_errors_reported + 1
            /\ pull' = IF error_limit > 0 /\ data_errors_reported' >= error_limit
                       THEN "ValueError"
                       ELSE "running"

\* KgtkReader.yelp: count the ignored line, then stay silent, report, or
\* raise; a report that reaches a positive error_limit raises as well.
yelp ==
    /\ data_lines_ignored' = data_lines_ignored + 1
    /\ IF error_action = "SILENT"
       THEN /\ UNCHANGED data_errors_reported
            /\ pull' = "running"
       ELSE IF error_action = "VALUEERROR"
       THEN /\ UNCHANGED data_errors_reported
            /\ pull' = "ValueError"
       ELSE /\ data_errors_reported' = data_errors_reported + 1
            /\ pull' = IF error_limit > 0 /\ data_errors_reported' >= error_limit
                       THEN "ValueError"
                       ELSE "running"

\* -------------------------------------------------------------- validator

\* fill that stops one column early.
fill_one_short(vals) ==
    IF fill_short_lines /\ Len(vals) < column_count
    THEN vals \o [i \in 1..(column_count - Len(vals) - 1) |-> <<>>]
    ELSE vals

\* A fill that pads nothing.
fill_never(vals) == vals

\* Optionally fill missing trailing columns with empty values.
fill(vals) ==
    IF fill_short_lines /\ Len(vals) < column_count
    THEN vals \o [i \in 1..(column_count - Len(vals)) |-> <<>>]
    ELSE vals

\* A truncation that keeps the trailing columns.
truncate_keeps_last(vals) ==
    IF truncate_long_lines /\ Len(vals) > column_count
    THEN SubSeq(vals, Len(vals) - column_count + 1, Len(vals))
    ELSE vals

\* Optionally remove extra trailing columns.
truncate(vals) ==
    IF truncate_long_lines /\ Len(vals) > column_count
    THEN SubSeq(vals, 1, column_count)
    ELSE vals

\* The field list of a stripped line after split, fill and truncate.
reconcile(line) == truncate(fill(split(line, column_separator)))

\* A blank field: empty, or nothing but whitespace.
is_blank(field) == Len(field) = 0 \/ isspace(field)

\* The field at a 0-based column index is there and blank.
blank_at(vals, idx) ==
    /\ idx \in 0..(Len(vals) - 1)
    /\ is_blank(vals[idx + 1])

\* EdgeReader._ignore_if_blank_fields: a blank node1 or node2 field, each
\* under its own flag.
EdgeReader_ignore_if_blank_fields(vals) ==
    \/ ignore_blank_node1_lines /\ blank_at(vals, node1_column_idx)
    \/ ignore_blank_node2_lines /\ blank_at(vals, node2_column_idx)

\* NodeReader._ignore_if_blank_fields: a blank id field.
NodeReader_ignore_if_blank_fields(vals) ==
    ignore_blank_id_lines /\ blank_at(vals, id_column_idx)

\* A base reader that checks the id column it was given the flag for.
_ignore_if_blank_fields_checks_id(vals) ==
    IF is_edge_file THEN EdgeReader_ignore_if_blank_fields(vals)
    ELSE IF is_node_file THEN NodeReader_ignore_if_blank_fields(vals)
    ELSE /\ ignore_blank_id_lines
         /\ \E n \in {<<"id">>, <<"ID">>} \cap DOMAIN column_name_map :
               blank_at(vals, column_name_map[n])

\* self._ignore_if_blank_fields(values, line): the hook of the reader that
\* open built; KgtkReader's own checks nothing.
_ignore_if_blank_fields(vals) ==
    IF is_edge_file THEN EdgeReader_ignore_if_blank_fields(vals)
    ELSE IF is_node_file THEN NodeReader_ignore_if_blank_fields(vals)
    ELSE FALSE

\* An ignored line whose `continue` is missing: it falls through to the
\* accept path and is counted as passed too.
reject_no_continue ==
    /\ yelp
    /\ values' = <<>>
    /\ data_lines_passed' = data_lines_passed + 1

\* An ignored line: yelp, then `continue` unless yelp raised.
reject ==
    /\ yelp
    /\ values' = <<>>
    /\ UNCHANGED data_lines_passed

\* One pass of the loop body of __next__ on the raw line just read.
validate(raw) ==
    LET line == rstrip(raw)
        vals == reconcile(line)
    IN  /\ data_lines_read' = data_lines_read + 1
        /\ IF Len(line) = 0 /\ ignore_empty_lines
           THEN reject
           ELSE IF Len(line) = 0
           THEN \* line[0] of the empty string: IndexError leaves __next__
                /\ pull' = "IndexError"
                /\ values' = <<>>
                /\ UNCHANGED <<data_lines_passed, data_lines_ignored,
                               data_errors_reported>>
           ELSE IF line[1] = COMMENT_INDICATOR /\ ignore_comment_lines
           THEN reject
           ELSE IF ignore_whitespace_lines /\ isspace(line)
           THEN reject
           ELSE IF ignore_short_lines /\ Len(vals) < column_count
           THEN reject
           ELSE IF ignore_long_lines /\ Len(vals) > column_count
           THEN reject
           ELSE IF _ignore_if_blank_fields(vals)
           THEN reject
           ELSE /\ data_lines_passed' = data_lines_passed + 1
                /\ pull' = "returned"
                /\ values' = vals
                /\ UNCHANGED <<data_lines_ignored, data_errors_reported>>

\* The StopIteration handler without its self.source.close().
on_StopIteration_no_close ==
    /\ pull' = "StopIteration"
    /\ values' = <<>>
    /\ UNCHANGED <<counters, source, worker, queue, received>>

\* A handler that swallows StopIteration and goes round the loop again.
on_StopIteration_continues ==
    /\ pull' = "running"
    /\ values' = <<>>
    /\ UNCHANGED <<counters, source, worker, queue, received>>

\* The StopIteration handler of __next__: close the input file and
\* re-raise; the iteration ends.
on_StopIteration ==
    /\ source_close
    /\ pull' = "StopIteration"
    /\ values' = <<>>
    /\ UNCHANGED <<counters, received>>

\* One read of the source in __next__ that delivers `item`, and what the
\* loop body does with it.
next_item(item) ==
    /\ opened = "ok"
    /\ consumed' = IF item \in DataLines THEN consumed + 1 ELSE consumed
    /\ IF source_kind = "GunzipProcess"
       THEN gunzip_next(item)
       ELSE text_next(item)
    /\ IF item = StopIteration
       THEN on_StopIteration
       ELSE IF item = SourceError
       THEN /\ pull' = "SourceError"
            /\ values' = <<>>
            /\ UNCHANGED <<counters, source, worker, queue, received>>
       ELSE /\ validate(item)
            /\ queue' = IF source_kind = "GunzipProcess"
                        THEN Tail(queue) ELSE queue
            /\ received' = IF source_kind = "GunzipProcess"
                           THEN Append(received, item)
                           ELSE received
            /\ UNCHANGED <<source, worker>>
    /\ log' = IF log.on /\ item \in DataLines
              THEN [log EXCEPT
                       !.lines = Append(@, item),
                       !.records = IF pull' = "returned"
                                   THEN Append(@, values') ELSE @]
              ELSE log
    /\ UNCHANGED <<cfg, call, opened, source_kind, close_calls, decoded>>

\* KgtkReader.__next__, one read of the source at a time: a call starts
\* from any state but "running" and stays "running" while lines are ignored.
__next__ ==
    \E item \in DataLines \cup {StopIteration, SourceError} : next_item(item)

\* close that leaves the line source alone.
close_noop ==
    /\ opened = "ok"
    /\ pull # "running"
    /\ close_calls < MaxCloses
    /\ close_calls' = close_calls + 1
    /\ UNCHANGED <<cfg, call, log, opened, source_kind, consumed, counters, pull, values, source, worker, queue,
                   decoded, received>>

\* close that starts the counters over.
close_resets_counters ==
    /\ opened = "ok"
    /\ pull # "running"
    /\ close_calls < MaxCloses
    /\ source_close
    /\ close_calls' = close_calls + 1
    /\ data_lines_read' = 0
    /\ data_lines_passed' = 0
    /\ data_lines_ignored' = 0
    /\ data_errors_reported' = 0
    /\ UNCHANGED <<cfg, call, log, opened, source_kind, consumed, pull,
                   values, decoded, received>>

\* KgtkReader.close: close the line source.
close ==
    /\ opened = "ok"
    /\ pull # "running"
    /\ close_calls < MaxCloses
    /\ source_close
    /\ close_calls' = close_calls + 1
    /\ UNCHANGED <<cfg, call, log, opened, source_kind, consumed, counters, pull, values, decoded, received>>

\* ------------------------------------------------------------------- open

\* KgtkFormat's required column names with their aliases.
NODE1_COLUMN_NAMES == { <<"node1">>, <<"from">>, <<"subject">> }
NODE2_COLUMN_NAMES == { <<"node2">>, <<"to">>, <<"object">> }
LABEL_COLUMN_NAMES ==
    { <<"label">>, <<"predicate">>, <<"relation">>, <<"relationship">> }
ID_COLUMN_NAMES == { <<"id">>, <<"ID">> }

\* KgtkFormat.get_column_idx: the index of the column that carries one of
\* the names; -1 if none does and the column is optional, a failure if it
\* is required.
get_column_idx(names, map, is_optional) ==
    LET found == names \cap DOMAIN map
    IN  IF found = {}
        THEN [ok |-> is_optional, idx |-> -1]
        ELSE [ok |-> TRUE, idx |-> map[CHOOSE n \in found : TRUE]]

\* KgtkFormat.required_edge_columns: the node1, node2 and label indices,
\* or a failure if one of them cannot be resolved.
required_edge_columns(map) ==
    LET n1 == get_column_idx(NODE1_COLUMN_NAMES, map, FALSE)
        n2 == get_column_idx(NODE2_COLUMN_NAMES, map, FALSE)
        lb == get_column_idx(LABEL_COLUMN_NAMES, map, FALSE)
    IN  [ok |-> n1.ok /\ n2.ok /\ lb.ok,
         node1 |-> n1.idx, node2 |-> n2.idx, label |-> lb.idx]

\* KgtkFormat.required_node_column: the id index, or a failure.
required_node_column(map) == get_column_idx(ID_COLUMN_NAMES, map, FALSE)

\* Auto mode deciding on the id column instead of node1.
classify_by_id(mode, map) ==
    LET id_idx == get_column_idx(ID_COLUMN_NAMES, map, TRUE).idx
    IN  [is_edge_file |-> IF mode = "AUTO" THEN id_idx < 0 ELSE mode = "EDGE",
         is_node_file |-> IF mode = "AUTO" THEN id_idx >= 0 ELSE mode = "NODE"]

\* Auto mode that leaves is_node_file set next to is_edge_file.
classify_both(mode, map) ==
    LET node1_idx == get_column_idx(NODE1_COLUMN_NAMES, map, TRUE).idx
    IN  [is_edge_file |-> IF mode = "AUTO" THEN node1_idx >= 0 ELSE mode = "EDGE",
         is_node_file |-> IF mode = "AUTO" THEN TRUE ELSE mode = "NODE"]

\* KgtkReader.open, the mode decision: in auto mode a node1 (or alias)
\* column makes an edge file, anything else a node file.
classify(mode, map) ==
    LET node1_idx == get_column_idx(NODE1_COLUMN_NAMES, map, TRUE).idx
    IN  [is_edge_file |-> IF mode = "AUTO" THEN node1_idx >= 0 ELSE mode = "EDGE",
         is_node_file |-> IF mode = "AUTO" THEN ~(node1_idx >= 0) ELSE mode = "NODE"]

\* The names the module binds at import time (lines 7-18).
ImportedNames ==
    { "ArgumentParser", "attr", "Enum", "Process", "Queue", "Path", "sys",
      "typing", "ClosableIter", "ClosableIterTextIOWrapper", "EnumNameAction",
      "GunzipProcess", "KgtkFormat" }

\* The module each branch of _open_compressed_file opens the file with.
CodecModule(ctype) ==
    IF ctype \in {".gz", "gz"} THEN "gzip"
    ELSE IF ctype \in {".bz2", "bz2"} THEN "bz2"
    ELSE IF ctype \in {".xz", "xz"} THEN "lzma"
    ELSE IF ctype \in {".lz4", "lz4"} THEN "lz4"
    ELSE "ValueError"

\* KgtkReader._open_compressed_file: the codec's text stream; ValueError
\* for an unexpected compression type; NameError where the branch names a
\* module the file never imports.
_open_compressed_file(ctype) ==
    LET module == CodecModule(ctype)
    IN  IF module = "ValueError" THEN "ValueError"
        ELSE IF module \notin ImportedNames THEN "NameError"
        ELSE module

\* KgtkReader._openfile: the kind of line source built for the path.
_openfile(path, ctype, in_parallel) ==
    IF path = NoPath \/ (path.name = "-" /\ path.suffix = "")
    THEN IF ctype # "None" /\ ctype # ""
         THEN _open_compressed_file(ctype)
         ELSE "stdin"
    ELSE LET gzip_file ==
                 IF ctype # "None" /\ ctype # ""
                 THEN _open_compressed_file(ctype)
                 ELSE IF path.suffix \in {".bz2", ".gz", ".lz4", ".xz"}
                 THEN _open_compressed_file(path.suffix)
                 ELSE "text"
         IN  IF gzip_file \in {"text", "ValueError", "NameError"}
             THEN gzip_file
             ELSE IF in_parallel THEN "GunzipProcess" ELSE gzip_file

\* _build_column_names that reads a line even when the names are forced
\* and the first record is not to be skipped.
_build_column_names_always_reads(first, forced, skip, separator) ==
    IF first = StopIteration
    THEN [raised |-> TRUE, names |-> <<>>, lines |-> 0]
    ELSE IF ~forced.given
    THEN [raised |-> FALSE, names |-> split(rstrip(first), separator), lines |-> 1]
    ELSE [raised |-> FALSE, names |-> forced.names, lines |-> 1]

\* KgtkReader._build_column_names on a source whose next item is `first`:
\* the column names, the number of raw lines taken from the source, and
\* whether next(source) raised StopIteration.
_build_column_names(first, forced, skip, separator) ==
    IF ~forced.given
    THEN IF first = StopIteration
         THEN [raised |-> TRUE, names |-> <<>>, lines |-> 0]
         ELSE [raised |-> FALSE, names |-> split(rstrip(first), separator),
               lines |-> 1]
    ELSE IF skip
    THEN IF first = StopIteration
         THEN [raised |-> TRUE, names |-> <<>>, lines |-> 0]
         ELSE [raised |-> FALSE, names |-> forced.names, lines |-> 1]
    ELSE [raised |-> FALSE, names |-> forced.names, lines |-> 0]

\* The first raw line of the file: a header line of one token per name.
HeaderLines ==
    { <<"node1", "\t", "label", "\t", "node2", "\n">>,
      <<"id", "\t", "label", "\n">>,
      <<"id", "\t", "node1", "\t", "label", "\t", "node2", "\r", "\n">>,
      <<"node1", "\t", "label", "\n">>,
      <<"from", "\t", "label", "\t", "to", "\n">>,
      <<"x", "\t", "y", "\n">>,
      <<"id", "\t", "label", "\t", "id", "\n">> }

\* The fields of the reader open builds once the columns are resolved.
\* EdgeReader is not given ignore_blank_id_lines, NodeReader and the base
\* reader are not given the node1 and node2 flags: those keep the
\* attribute default, False.
reader_fields(args, names, kind, edge, id) ==
    LET map == build_column_name_map(names)
    IN  [args EXCEPT
            !.column_names = names,
            !.column_name_map = map,
            !.column_count = Len(names),
            !.node1_column_idx = IF kind.is_edge_file THEN edge.node1 ELSE -1,
            !.node2_column_idx = IF kind.is_edge_file THEN edge.node2 ELSE -1,
            !.label_column_idx = IF kind.is_edge_file THEN edge.label ELSE -1,
            !.id_column_idx =
                IF ~kind.is_edge_file /\ kind.is_node_file THEN id.idx ELSE -1,
            !.is_edge_file = kind.is_edge_file,
            !.is_node_file = kind.is_node_file,
            !.ignore_blank_node1_lines =
                kind.is_edge_file /\ args.ignore_blank_node1_lines,
            !.ignore_blank_node2_lines =
                kind.is_edge_file /\ args.ignore_blank_node2_lines,
            !.ignore_blank_id_lines =
                ~kind.is_edge_file /\ args.ignore_blank_id_lines]

\* KgtkReader.open after _openfile, on a source whose first item is
\* `first`: resolve the column names, decide the file type, resolve its
\* required columns and construct the reader; or the exception raised.
resolve(args, first) ==
    LET built == _build_column_names(first, args.force_column_names,
                     args.skip_first_record, args.column_separator)
        map == build_column_name_map(built.names)
        kind == classify(args.mode, map)
        edge == required_edge_columns(map)
        id == required_node_column(map)
    IN  IF built.raised
        THEN [opened |-> "StopIteration", reader |-> args, lines |-> 0]
        ELSE IF kind.is_edge_file /\ ~edge.ok
        THEN [opened |-> "ValueError", reader |-> args, lines |-> built.lines]
        ELSE IF ~kind.is_edge_file /\ kind.is_node_file /\ ~id.ok
        THEN [opened |-> "ValueError", reader |-> args, lines |-> built.lines]
        ELSE [opened |-> "ok",
              reader |-> reader_fields(args, built.names, kind, edge, id),
              lines |-> built.lines]

\* KgtkReader.open: build the line source, then resolve the reader from
\* it. A failure leaves no reader; what was opened before it stays open.
open ==
    /\ opened = "no"
    /\ LET kind == _openfile(file_path, compression_type, gzip_in_parallel)
       IN  IF kind \in {"ValueError", "NameError"}
           THEN /\ opened' = kind
                /\ UNCHANGED <<cfg, source_kind, consumed, source, worker>>
           ELSE \E first \in HeaderLines \cup {StopIteration} :
                  LET result == resolve(cfg, first)
                  IN  /\ source_kind' = kind
                      /\ source' = "open"
                      /\ worker' = IF kind = "GunzipProcess"
                                   THEN "running" ELSE "none"
                      /\ consumed' = result.lines
                      /\ opened' = result.opened
                      /\ cfg' = result.reader
    /\ UNCHANGED <<counters, pull, values, close_calls, queue, decoded,
                   received, call, log>>

\* The arguments of open at their keyword defaults, with the fields the
\* reader will get still unresolved.
OpenDefaults ==
    [BaseConfig EXCEPT
        !.mode = "AUTO",
        !.column_names = <<>>,
        !.column_name_map = build_column_name_map(<<>>),
        !.column_count = 0,
        !.ignore_blank_node1_lines = TRUE,
        !.ignore_blank_node2_lines = TRUE,
        !.ignore_blank_id_lines = TRUE]

EdgeNames == << <<"node1">>, <<"label">>, <<"node2">> >>

NodeNames == << <<"id">>, <<"label">> >>

FilePaths ==
    { NoPath, PathOf("-", ""), PathOf("f", ".tsv"), PathOf("f", ".gz"),
      PathOf("f", ".bz2"), PathOf("f", ".xz"), PathOf("f", ".lz4") }

CompressionTypes ==
    { "None", "", "gz", ".gz", "bz2", ".xz", "lz4", "zip" }

\* The open calls: every mode with headers read, forced and skipped; the
\* blank-field options; the short and long line options; the paths and
\* compression types.
OpenCalls ==
    { [OpenDefaults EXCEPT !.mode = m, !.force_column_names = f,
                           !.skip_first_record = k] :
        m \in Mode, f \in {None, Some(EdgeNames), Some(NodeNames)},
        k \in BOOLEAN }
    \cup
    { [OpenDefaults EXCEPT !.mode = m,
                           !.ignore_blank_node1_lines = b[1],
                           !.ignore_blank_node2_lines = b[2],
                           !.ignore_blank_id_lines = b[3]] :
        m \in {"AUTO", "NONE"}, b \in [1..3 -> BOOLEAN] }
    \cup
    { [OpenDefaults EXCEPT !.mode = m,
                           !.ignore_short_lines = w[1],
                           !.ignore_long_lines = w[2],
                           !.fill_short_lines = w[3],
                           !.truncate_long_lines = w[4]] :
        m \in {"AUTO", "NONE"}, w \in [1..4 -> BOOLEAN] }
    \cup
    { [OpenDefaults EXCEPT !.file_path = p, !.compression_type = c,
                           !.gzip_in_parallel = g] :
        p \in FilePaths, c \in CompressionTypes, g \in BOOLEAN }

\* Before the open call: nothing opened, nothing read.
InitOpen ==
    /\ cfg \in OpenCalls
    /\ opened = "no"
    /\ source_kind = "none"
    /\ consumed = 0
    /\ data_lines_read = 0
    /\ data_lines_passed = 0
    /\ data_lines_ignored = 0
    /\ data_errors_reported = 0
    /\ source = "unopened"
    /\ pull = "idle"
    /\ values = <<>>
    /\ close_calls = 0
    /\ worker = "none"
    /\ queue = <<>>
    /\ decoded = <<>>
    /\ received = <<>>
    /\ call = NoCall
    /\ log = NoLog

\* ------------------------------------------------- merge_columns, to_map

MaxAdditional == 2

\* The column names a caller may ask to merge in.
AdditionalNames == { <<"id">>, <<"label">>, <<"x">>, <<"y">> }

AdditionalColumns ==
    UNION { [1..k -> AdditionalNames] : k \in 0..MaxAdditional }

\* The field values of the records handed to to_map.
RecordFields == { <<>>, <<"a">>, <<"b">> }

\* Records of up to n fields.
Records(n) == UNION { [1..k -> RecordFields] : k \in 0..n }

\* The merge in which a name is looked up in the merged list: each new
\* name once, at its first place in the additional list.
merge_columns_once(additional_columns) ==
    column_names \o
    [ k \in 1..Cardinality({ i \in 1..Len(additional_columns) :
                               /\ additional_columns[i] \notin DOMAIN column_name_map
                               /\ \A j \in 1..(i - 1) :
                                     additional_columns[j] # additional_columns[i] })
        |-> LET kept == { i \in 1..Len(additional_columns) :
                            /\ additional_columns[i] \notin DOMAIN column_name_map
                            /\ \A j \in 1..(i - 1) :
                                  additional_columns[j] # additional_columns[i] }
                i == CHOOSE i \in kept : Cardinality({ j \in kept : j < i }) = k - 1
            IN  additional_columns[i] ]

\* KgtkReader.merge_columns: a copy of column_names, then each additional
\* name that is not a key of column_name_map, in the order given.
merge_columns(additional_columns) ==
    column_names \o
    SelectSeq(additional_columns,
              LAMBDA column_name : column_name \notin DOMAIN column_name_map)

\* to_map that keeps the first value stored under a name.
RECURSIVE to_map_first_wins_upto(_, _)
to_map_first_wins_upto(line, idx) ==
    IF idx = 0
    THEN << >>
    ELSE to_map_first_wins_upto(line, idx - 1)
             @@ (column_names[idx] :> line[idx])

to_map_first_wins(line) ==
    IF Len(line) > Len(column_names)
    THEN [raised |-> TRUE, result |-> "IndexError"]
    ELSE [raised |-> FALSE, result |-> to_map_first_wins_upto(line, Len(line))]

\* The loop of to_map after idx values: result[column_names[idx]] = value
\* overwrites what an earlier column of the same name stored.
RECURSIVE to_map_upto(_, _)
to_map_upto(line, idx) ==
    IF idx = 0
    THEN << >>
    ELSE (column_names[idx] :> line[idx]) @@ to_map_upto(line, idx - 1)

\* KgtkReader.to_map: the fields of the line under their column names;
\* column_names[idx] raises IndexError on a line with too many fields.
to_map(line) ==
    IF Len(line) > Len(column_names)
    THEN [raised |-> TRUE, result |-> "IndexError"]
    ELSE [raised |-> FALSE, result |-> to_map_upto(line, Len(line))]

\* merge_columns that appends to the reader's own column_names.
call_merge_columns_in_place ==
    /\ opened = "ok"
    /\ pull # "running"
    /\ \E additional_columns \in AdditionalColumns :
         /\ call' = [op |-> "merge_columns", arg |-> additional_columns,
                     raised |-> FALSE,
                     result |-> merge_columns(additional_columns)]
         /\ cfg' = [cfg EXCEPT
                       !.column_names = merge_columns(additional_columns)]
    /\ UNCHANGED <<opened, source_kind, consumed, counters, source,
                   pull, values, close_calls, worker, queue, decoded,
                   received, log>>

\* A call of reader.merge_columns(additional_columns).
call_merge_columns ==
    /\ opened = "ok"
    /\ pull # "running"
    /\ \E additional_columns \in AdditionalColumns :
         call' = [op |-> "merge_columns", arg |-> additional_columns,
                  raised |-> FALSE,
                  result |-> merge_columns(additional_columns)]
    /\ UNCHANGED <<cfg, opened, source_kind, consumed, counters, source,
                   pull, values, close_calls, worker, queue, decoded,
                   received, log>>

\* A call of reader.to_map(line).
call_to_map ==
    /\ opened = "ok"
    /\ pull # "running"
    /\ \E line \in Records(column_count + 1) :
         call' = [op |-> "to_map", arg |-> line,
                  raised |-> to_map(line).raised,
                  result |-> to_map(line).result]
    /\ UNCHANGED <<cfg, opened, source_kind, consumed, counters, source,
                   pull, values, close_calls, worker, queue, decoded,
                   received, log>>

\* The readers open returns over the header lines, in every mode.
MapReaders ==
    { resolve([OpenDefaults EXCEPT !.mode = m], h).reader :
        <<m, h>> \in { c \in Mode \X HeaderLines :
            resolve([OpenDefaults EXCEPT !.mode = c[1]], c[2]).opened = "ok" } }

InitMaps == InitWith(MapReaders)

\* The readers over a header of two columns, for a reader's whole life.
LifetimeReaders == { r \in MapReaders : r.column_count = Len(Header) }

InitLifetime == InitWith(LifetimeReaders)

\* ---------------------------------------------------------- specifications

Next == __next__ \/ close

Spec == Init /\ [][Next]_vars

NextGunzip == __next__ \/ close \/ run

SpecGunzip == InitGunzip /\ [][NextGunzip]_vars

NextOpen == open \/ __next__ \/ close

SpecOpen == InitOpen /\ [][NextOpen]_vars

NextMaps == call_merge_columns \/ call_to_map

SpecMaps == InitMaps /\ [][NextMaps]_vars

NextPulls == __next__

SpecPulls == InitPulls /\ [][NextPulls]_vars

\* A pull that has started keeps running: the loop of __next__ is straight
\* code in the caller's thread and a read of the text stream returns.
SpecFair ==
    InitWith(PullConfigs) /\ [][Next]_vars /\ WF_vars(pull = "running" /\ __next__)

NextLifetime == __next__ \/ close \/ call_merge_columns \/ call_to_map

SpecLifetime == InitLifetime /\ [][NextLifetime]_vars

\* ------------------------------------------------------------------ claims

\* C1 (as stated): every record a pull returns has exactly column_count
\* fields, whatever the four width flags are.
C1_EveryRecordHasColumnCount ==
    pull = "returned" => Len(values) = column_count

\* C1 (amended): a returned record has exactly column_count fields whenever
\* short lines are filled or rejected and long lines are truncated or
\* rejected; a narrower record is returned only with fill_short_lines and
\* ignore_short_lines both off, a wider one only with truncate_long_lines
\* and ignore_long_lines both off.
C1_RecordWidthUnderFlags ==
    pull = "returned" =>
        /\ (fill_short_lines \/ ignore_short_lines)
              /\ (truncate_long_lines \/ ignore_long_lines)
              => Len(values) = column_count
        /\ Len(values) < column_count
              => ~fill_short_lines /\ ~ignore_short_lines
        /\ Len(values) > column_count
              => ~truncate_long_lines /\ ~ignore_long_lines

\* A short line filled up to the width and returned under a strict check.
C1_Witness ==
    /\ pull = "returned"
    /\ fill_short_lines /\ ignore_short_lines
    /\ values = <<<<"b">>, <<>>>>

\* C2 (as stated): in silent mode the reported-error counter increments on
\* every ignored line, and reaching a positive error_limit aborts the pull.
C2_SilentCountsErrors ==
    error_action = "SILENT" =>
        /\ data_errors_reported = data_lines_ignored
        /\ (error_limit > 0 /\ data_lines_ignored >= error_limit
              => pull = "ValueError")

\* C2 (amended): in silent mode only data_lines_ignored counts the ignored
\* lines; data_errors_reported stays 0 and no pull aborts through the
\* dispatcher, whatever error_limit is.
C2_SilentNeverReports ==
    error_action = "SILENT" =>
        /\ data_errors_reported = 0
        /\ pull # "ValueError"

\* Silent mode with more ignored lines than a positive limit allows.
C2_Witness ==
    /\ error_action = "SILENT"
    /\ error_limit > 0
    /\ data_lines_ignored > error_limit
    /\ pull = "running"

\* C3: with action STDOUT or STDERR every ignored line is one report, and
\* the pull aborts on a line exactly when that line is ignored, error_limit
\* is positive and the report counter has reached it; the aborting pull
\* returns no record, and with error_limit <= 0 no pull aborts.
C3_LimitEscalation ==
    [][ (error_action \in {"STDOUT", "STDERR"}
            /\ data_lines_read' = data_lines_read + 1)
        => /\ data_errors_reported' - data_errors_reported
                = data_lines_ignored' - data_lines_ignored
           /\ (pull' = "ValueError") <=>
                 /\ data_lines_ignored' = data_lines_ignored + 1
                 /\ error_limit > 0
                 /\ data_errors_reported' >= error_limit
           /\ (pull' = "ValueError" => values' = <<>>) ]_vars

\* The second report reaches a limit of two and aborts the pull.
C3_Witness ==
    /\ error_action \in {"STDOUT", "STDERR"}
    /\ error_limit >= 2
    /\ data_errors_reported = error_limit
    /\ pull = "ValueError"

\* C4 (as stated): once a pull has aborted through the dispatcher, the next
\* pull reports no further error and returns no record.
C4_AbortIsTerminal ==
    [][ pull = "ValueError"
        => /\ pull' # "returned"
           /\ data_errors_reported' = data_errors_reported ]_vars

\* C5 (as stated): an empty line ends as ignored or goes on to the split
\* and width steps; it never fails outside the dispatcher.
C5_EmptyLineNeverCrashes ==
    pull # "IndexError"

\* C6: data_lines_passed + data_lines_ignored <= data_lines_read in every
\* reachable state.
C6_PassedPlusIgnoredAtMostRead ==
    data_lines_passed + data_lines_ignored <= data_lines_read

\* A record returned by a pull made after the limit aborted an earlier one.
C6_Witness ==
    /\ error_limit > 0
    /\ data_errors_reported >= error_limit
    /\ pull = "returned"
    /\ data_lines_passed + data_lines_ignored = data_lines_read

\* C7: with action VALUEERROR a line that is ignored aborts the pull at
\* once, whatever error_limit is: no pull goes on to a further line after
\* an ignored one, and the aborting pull returns no record.
C7_ValueErrorAbortsAtOnce ==
    /\ [](error_action = "VALUEERROR" => pull # "running")
    /\ [][ (error_action = "VALUEERROR"
               /\ data_lines_ignored' # data_lines_ignored)
           => /\ pull' = "ValueError"
              /\ values' = <<>>
              /\ data_lines_passed' = data_lines_passed
              /\ data_errors_reported' = data_errors_reported ]_vars

\* VALUEERROR aborts where no limit is configured, after a record passed.
C7_Witness ==
    /\ error_action = "VALUEERROR"
    /\ error_limit <= 0
    /\ data_lines_passed >= 1
    /\ pull = "ValueError"

\* C8: close can be called in every state between pulls and completes; after
\* the first close, and after the pull that hit exhaustion, the line source
\* is released, and a repeated close leaves it released.
C8_CloseIdempotent ==
    /\ (close_calls >= 1 => source = "closed")
    /\ (pull = "StopIteration" => source = "closed")
    /\ (pull # "running" /\ close_calls < MaxCloses => ENABLED close)

\* Two close calls around a pull that hit exhaustion after a record.
C8_Witness ==
    /\ close_calls = 2
    /\ pull = "StopIteration"
    /\ data_lines_passed >= 1
    /\ source = "closed"

\* C9: in parallel mode, after a close the worker is no longer running and
\* its queue is released, however much was consumed, and close remains
\* callable (a second close neither fails nor blocks).
C9_CloseStopsWorker ==
    /\ gzip_in_parallel
    /\ (close_calls >= 1 =>
          /\ source = "closed"
          /\ worker \in {"finished", "terminated"}
          /\ queue = <<>>)
    /\ (pull # "running" /\ close_calls < MaxCloses => ENABLED close)

\* Closed twice with the worker cut off while its queue was full.
C9_Witness ==
    /\ close_calls = 2
    /\ worker = "terminated"
    /\ Len(decoded) - Len(received) = gzip_queue_size
    /\ Len(received) >= 1

\* The lines in the queue, without the sentinel.
QueuedLines == SelectSeq(queue, LAMBDA item : item # Sentinel)

\* C10: in parallel mode the queue never holds more than gzip_queue_size
\* items, the consumer has received a prefix of the decoded lines (each once,
\* in order, the rest still queued while the source is open), and the end
\* of the stream is seen only once every decoded line has been received.
C10_QueueDeliversInOrder ==
    /\ Len(queue) <= gzip_queue_size
    /\ Len(received) <= Len(decoded)
    /\ received = SubSeq(decoded, 1, Len(received))
    /\ (source = "open" => received \o QueuedLines = decoded)
    /\ (pull = "StopIteration" /\ close_calls = 0 =>
          received = decoded /\ worker = "finished")

\* The end of a stream longer than the queue, an empty line included.
C10_Witness ==
    /\ pull = "StopIteration"
    /\ close_calls = 0
    /\ Len(decoded) > gzip_queue_size
    /\ received = decoded
    /\ \E i \in 1..Len(received) : received[i] = <<"\n">>

\* C11: a pull that finds the line source exhausted closes the source and
\* ends the iteration with StopIteration, leaving the four counters as
\* they were.
C11_ExhaustionClosesSource ==
    [][ (pull' = "StopIteration" /\ close_calls' = close_calls)
        => /\ source' = "closed"
           /\ counters' = counters ]_vars

\* Exhaustion met by a pull, after lines were passed and ignored.
C11_Witness ==
    /\ pull = "StopIteration"
    /\ close_calls = 0
    /\ source = "closed"
    /\ data_lines_passed >= 1
    /\ data_lines_ignored >= 1

\* The header names a node1 column or one of its aliases.
has_node1(names) == \E i \in 1..Len(names) : names[i] \in NODE1_COLUMN_NAMES

\* The column names of a header line.
header_names(h) == split(rstrip(h), COLUMN_SEPARATOR)

\* C12: in auto mode the file is an edge file if and only if the header has
\* a node1 column (or alias), and a node file otherwise, whatever else the
\* header holds: a reader opened in auto mode over a header with node1 is
\* an edge reader (also when the header has id), and open fails on a
\* header with node1 that lacks node2 or label.
C12_AutoModeClassification ==
    /\ \A h \in HeaderLines :
          LET names == header_names(h)
              kind == classify("AUTO", build_column_name_map(names))
              result == resolve(OpenDefaults, h)
          IN  /\ kind.is_edge_file <=> has_node1(names)
              /\ kind.is_node_file <=> ~has_node1(names)
              /\ (has_node1(names)
                    /\ ~required_edge_columns(build_column_name_map(names)).ok)
                 => result.opened = "ValueError"
    /\ (opened = "ok" /\ cfg.mode = "AUTO")
       => /\ is_edge_file <=> has_node1(column_names)
          /\ is_node_file <=> ~has_node1(column_names)

\* An auto-mode reader over a header with both id and node1: an edge reader.
C12_Witness ==
    /\ opened = "ok"
    /\ cfg.mode = "AUTO"
    /\ column_names = << <<"id">>, <<"node1">>, <<"label">>, <<"node2">> >>
    /\ is_edge_file
    /\ ~is_node_file

\* A resolved index: a position of the record that carries one of the names.
resolved(idx, names, aliases) ==
    /\ idx \in 0..(Len(names) - 1)
    /\ names[idx + 1] \in aliases

\* One of the columns is named by one of the aliases.
has_column(names, aliases) == \E i \in 1..Len(names) : names[i] \in aliases

\* The variant of a reader and its required indices agree.
variant_ok(r) ==
    /\ ~(r.is_edge_file /\ r.is_node_file)
    /\ r.is_edge_file
       => /\ resolved(r.node1_column_idx, r.column_names, NODE1_COLUMN_NAMES)
          /\ resolved(r.node2_column_idx, r.column_names, NODE2_COLUMN_NAMES)
          /\ resolved(r.label_column_idx, r.column_names, LABEL_COLUMN_NAMES)
    /\ r.is_node_file
       => resolved(r.id_column_idx, r.column_names, ID_COLUMN_NAMES)
    /\ (~r.is_edge_file /\ ~r.is_node_file)
       => /\ r.node1_column_idx = -1
          /\ r.node2_column_idx = -1
          /\ r.label_column_idx = -1
          /\ r.id_column_idx = -1

\* C13: a reader returned by open is exactly one of Untyped, Edge or Node
\* and its required indices match the variant: an Edge reader has node1,
\* node2 and label resolved to positions of the record, a Node reader has
\* id resolved, an Untyped reader has all four at -1; when a required
\* column of an Edge or Node file is missing, open fails.
C13_VariantAndRequiredIndices ==
    /\ opened = "ok" => variant_ok(cfg)
    /\ \A m \in Mode, h \in HeaderLines :
          LET names == header_names(h)
              kind == classify(m, build_column_name_map(names))
              result == resolve([OpenDefaults EXCEPT !.mode = m], h)
              missing ==
                  \/ /\ kind.is_edge_file
                     /\ \/ ~has_column(names, NODE1_COLUMN_NAMES)
                        \/ ~has_column(names, NODE2_COLUMN_NAMES)
                        \/ ~has_column(names, LABEL_COLUMN_NAMES)
                  \/ /\ kind.is_node_file
                     /\ ~has_column(names, ID_COLUMN_NAMES)
          IN  /\ missing => result.opened = "ValueError"
              /\ ~missing => result.opened = "ok" /\ variant_ok(result.reader)

\* An edge reader forced over an alias header, its three indices resolved.
C13_Witness ==
    /\ opened = "ok"
    /\ cfg.mode = "EDGE"
    /\ is_edge_file
    /\ column_names = << <<"from">>, <<"label">>, <<"to">> >>
    /\ node1_column_idx = 0
    /\ label_column_idx = 1
    /\ node2_column_idx = 2
    /\ id_column_idx = -1

\* The raw lines header resolution takes from the source.
header_lines(forced, skip) ==
    IF ~forced.given THEN 1 ELSE IF skip THEN 1 ELSE 0

\* C14: header resolution takes exactly one raw line when the column names
\* are not forced (that line becomes column_names), exactly one when they
\* are forced and skip_first_record is set (that line is discarded) and
\* none when they are forced without skip_first_record; no such line is
\* counted in data_lines_read, so the first line pulled next is data line 1.
C14_HeaderLinesConsumed ==
    /\ opened = "ok"
       => consumed = header_lines(force_column_names, skip_first_record)
                        + data_lines_read
    /\ \A f \in {None, Some(EdgeNames), Some(NodeNames)}, k \in BOOLEAN,
          h \in HeaderLines :
          LET built == _build_column_names(h, f, k, COLUMN_SEPARATOR)
          IN  /\ ~built.raised
              /\ built.lines = header_lines(f, k)
              /\ built.names = IF f.given THEN f.names ELSE header_names(h)

\* Forced names, first record not skipped: the one raw line taken from the
\* source so far is data line 1.
C14_Witness ==
    /\ opened = "ok"
    /\ force_column_names = Some(NodeNames)
    /\ ~skip_first_record
    /\ consumed = 1
    /\ data_lines_read = 1
    /\ pull = "returned"

\* The empty, comment and whitespace checks of __next__ stop the line.
prefiltered(line) ==
    \/ Len(line) = 0
    \/ line[1] = COMMENT_INDICATOR /\ ignore_comment_lines
    \/ ignore_whitespace_lines /\ isspace(line)

\* The fields followed by empty fields up to column_count.
padded(vals) == vals \o [i \in 1..(column_count - Len(vals)) |-> <<>>]

\* The step returns `record`, or ignores the line when the record has
\* blank required fields.
yields(record) ==
    IF _ignore_if_blank_fields(record)
    THEN /\ data_lines_ignored' = data_lines_ignored + 1
         /\ data_lines_passed' = data_lines_passed
         /\ values' = <<>>
    ELSE /\ pull' = "returned"
         /\ values' = record
         /\ data_lines_passed' = data_lines_passed + 1
         /\ data_lines_ignored' = data_lines_ignored

\* C15: with fill_short_lines, a line that passes the empty, comment and
\* whitespace checks and has k < column_count fields becomes its k fields
\* in order followed by column_count - k empty strings, and is not rejected
\* as short, whatever ignore_short_lines is.
C15_FillShortLines ==
    [][ \A raw \in DataLines :
          LET line == rstrip(raw)
              vals == split(line, column_separator)
          IN  (/\ fill_short_lines
               /\ ~prefiltered(line)
               /\ Len(vals) < column_count
               /\ next_item(raw))
              => /\ reconcile(line) = padded(vals)
                 /\ Len(reconcile(line)) = column_count
                 /\ yields(padded(vals)) ]_vars

\* Two fields filled to four columns and returned although short lines
\* are to be ignored.
C15_Witness ==
    /\ opened = "ok"
    /\ fill_short_lines
    /\ ignore_short_lines
    /\ column_count = 4
    /\ pull = "returned"
    /\ values = << <<"a">>, <<"b">>, <<>>, <<>> >>

\* C16: with truncate_long_lines, a line that passes the empty, comment and
\* whitespace checks and has k > column_count fields becomes its first
\* column_count fields in order, and is not rejected as long, whatever
\* ignore_long_lines is.
C16_TruncateLongLines ==
    [][ \A raw \in DataLines :
          LET line == rstrip(raw)
              vals == split(line, column_separator)
          IN  (/\ truncate_long_lines
               /\ ~prefiltered(line)
               /\ Len(vals) > column_count
               /\ next_item(raw))
              => /\ reconcile(line) = SubSeq(vals, 1, column_count)
                 /\ yields(SubSeq(vals, 1, column_count)) ]_vars

\* Six fields cut to the first four and returned although long lines are
\* to be ignored.
C16_Witness ==
    /\ opened = "ok"
    /\ truncate_long_lines
    /\ ignore_long_lines
    /\ column_count = 4
    /\ pull = "returned"
    /\ values = << <<"a">>, <<"b">>, <<"a">>, <<"b">> >>

\* The blank required fields of a width-correct record, by variant.
blank_required(vals) ==
    IF is_edge_file
    THEN \/ ignore_blank_node1_lines /\ is_blank(vals[node1_column_idx + 1])
         \/ ignore_blank_node2_lines /\ is_blank(vals[node2_column_idx + 1])
    ELSE IF is_node_file
    THEN ignore_blank_id_lines /\ is_blank(vals[id_column_idx + 1])
    ELSE FALSE

\* C17: a width-correct line is ignored for blank required fields exactly
\* when, in an edge file, blank-node1 checking is on and node1 is blank or
\* blank-node2 checking is on and node2 is blank; in a node file, blank-id
\* checking is on and id is blank; in an untyped file never. An ignored
\* line adds one to data_lines_ignored and is not returned; any other
\* width-correct line is returned.
C17_BlankRequiredFields ==
    [][ \A raw \in DataLines :
          LET line == rstrip(raw)
              vals == reconcile(line)
          IN  (/\ ~prefiltered(line)
               /\ Len(vals) = column_count
               /\ next_item(raw))
              => IF blank_required(vals)
                 THEN /\ data_lines_ignored' = data_lines_ignored + 1
                      /\ data_lines_passed' = data_lines_passed
                      /\ pull' # "returned"
                      /\ values' = <<>>
                 ELSE /\ data_lines_ignored' = data_lines_ignored
                      /\ data_lines_passed' = data_lines_passed + 1
                      /\ pull' = "returned"
                      /\ values' = vals ]_vars

\* An edge reader that checks node1 but not node2: one line ignored, then
\* a line with a blank node2 returned.
C17_Witness ==
    /\ opened = "ok"
    /\ is_edge_file
    /\ ignore_blank_node1_lines
    /\ ~ignore_blank_node2_lines
    /\ column_names = EdgeNames
    /\ data_lines_read = 2
    /\ data_lines_ignored = 1
    /\ data_lines_passed = 1
    /\ pull = "returned"
    /\ values = << <<"a">>, <<"a">>, <<>> >>

\* C18: merge_columns returns the column names in their order followed by
\* each additional name that is not already present, once, in first-seen
\* order: a name repeated in the additional list is added only once.
C18_MergeAddsEachNameOnce ==
    call.op = "merge_columns"
    => call.result = merge_columns_once(call.arg)

\* C19: for a record of column_count fields, to_map has exactly the column
\* names as keys and maps each name n to record[column_name_map[n]]; with
\* a name repeated in the header both take the last occurrence.
C19_ToMapAgreesWithColumnNameMap ==
    (call.op = "to_map" /\ Len(call.arg) = column_count)
    => /\ ~call.raised
       /\ DOMAIN call.result = { column_names[i] : i \in 1..column_count }
       /\ DOMAIN call.result = DOMAIN column_name_map
       /\ \A n \in DOMAIN call.result :
             call.result[n] = call.arg[column_name_map[n] + 1]

\* A header that names id twice: to_map stores the last id field.
C19_Witness ==
    /\ call.op = "to_map"
    /\ ~call.raised
    /\ column_names = << <<"id">>, <<"label">>, <<"id">> >>
    /\ call.arg = << <<"a">>, <<>>, <<"b">> >>
    /\ call.result[<<"id">>] = <<"b">>
    /\ column_name_map[<<"id">>] = 2

\* What decides the codec of a file path: the explicit compression type if
\* it is not empty, else a recognized suffix, else nothing.
selector ==
    IF compression_type \notin {"None", ""} THEN compression_type
    ELSE IF file_path.suffix \in {".bz2", ".gz", ".lz4", ".xz"}
    THEN file_path.suffix
    ELSE "plain"

\* C20: opening a file path, a non-empty explicit compression type selects
\* the codec whatever the suffix; without one a recognized suffix selects
\* it; otherwise the file is read as plain text; an explicit type that is
\* not recognized makes open fail before any line is read.
C20_CompressionSelection ==
    (opened # "no" /\ file_path # NoPath /\ file_path.name # "-")
    => IF selector = "plain"
       THEN source_kind = "text"
       ELSE IF CodecModule(selector) = "ValueError"
       THEN opened = "ValueError" /\ consumed = 0 /\ data_lines_read = 0
       ELSE source_kind \in {CodecModule(selector), "GunzipProcess"}

\* C21: each data line pulled from the source adds one to data_lines_read
\* and ends either accepted (data_lines_passed + 1, yelp not called) or
\* ignored (data_lines_ignored + 1 by the one call of yelp); so whenever a
\* pull has returned a record or raised through yelp,
\* data_lines_read = data_lines_passed + data_lines_ignored.
C21_EveryLineAcceptedOrIgnored ==
    [][ /\ \A raw \in DataLines :
             next_item(raw)
             => /\ data_lines_read' = data_lines_read + 1
                /\ \/ /\ data_lines_passed' = data_lines_passed + 1
                      /\ data_lines_ignored' = data_lines_ignored
                      /\ data_errors_reported' = data_errors_reported
                   \/ /\ data_lines_passed' = data_lines_passed
                      /\ data_lines_ignored' = data_lines_ignored + 1
        /\ pull' \in {"returned", "ValueError"}
           => data_lines_read' = data_lines_passed' + data_lines_ignored' ]_vars

\* C25: with a positive error_limit, data_errors_reported never exceeds it,
\* also when the caller keeps pulling after the limit raised; and
\* data_errors_reported never exceeds data_lines_ignored.
C25_ErrorsWithinLimit ==
    /\ error_limit > 0 => data_errors_reported <= error_limit
    /\ data_errors_reported <= data_lines_ignored

\* C26: when open fails after _openfile built the line source (the header
\* cannot be read, or a required edge or node column cannot be resolved),
\* the line source is closed and the worker, if one was started, stopped
\* before the failure reaches the caller.
C26_FailedOpenReleasesSource ==
    (opened \in {"ValueError", "StopIteration"} /\ source_kind # "none")
    => /\ source # "open"
       /\ worker # "running"

\* C22: over any sequence of pulls, close, merge_columns and to_map calls,
\* none of the four counters ever decreases from one state to the next.
C22_CountersNeverDecrease ==
    [][ /\ data_lines_read' >= data_lines_read
        /\ data_lines_passed' >= data_lines_passed
        /\ data_lines_ignored' >= data_lines_ignored
        /\ data_errors_reported' >= data_errors_reported ]_vars

\* All four counters have moved, the reader was closed and to_map called.
C22_Witness ==
    /\ data_lines_read >= 2
    /\ data_lines_passed >= 1
    /\ data_lines_ignored >= 1
    /\ data_errors_reported >= 1
    /\ close_calls >= 1
    /\ call.op = "to_map"

\* The column names, their map, their count and the required indices.
schema ==
    <<column_names, column_name_map, column_count, node1_column_idx,
      node2_column_idx, label_column_idx, id_column_idx>>

\* C23: once the reader is open, no pull, close, merge_columns or to_map
\* call changes column_names, column_name_map, column_count or a required
\* column index; column_count = len(column_names) in every state; and
\* merge_columns returns its list without touching column_names.
C23_SchemaNeverChanges ==
    /\ [](column_count = Len(column_names))
    /\ [][ opened = "ok" => schema' = schema ]_vars

\* merge_columns has returned a longer list; the reader, pulled from and
\* closed, still has its two columns.
C23_Witness ==
    /\ call.op = "merge_columns"
    /\ call.result = << <<"id">>, <<"label">>, <<"x">> >>
    /\ column_names = << <<"id">>, <<"label">> >>
    /\ column_count = 2
    /\ data_lines_passed >= 1
    /\ close_calls >= 1

\* A stripped line one of the rules of the validation loop ignores.
classified_ignored(line) ==
    \/ Len(line) = 0 /\ ignore_empty_lines
    \/ Len(line) > 0 /\ line[1] = COMMENT_INDICATOR /\ ignore_comment_lines
    \/ ignore_whitespace_lines /\ isspace(line)
    \/ ignore_short_lines /\ Len(reconcile(line)) < column_count
    \/ ignore_long_lines /\ Len(reconcile(line)) > column_count
    \/ _ignore_if_blank_fields(reconcile(line))

\* No pull so far has raised through yelp.
no_abort ==
    \/ error_action = "SILENT"
    \/ /\ error_action \in {"STDOUT", "STDERR"}
       /\ error_limit <= 0 \/ data_errors_reported < error_limit

\* The records the lines pulled so far stand for: the reconciled fields of
\* each line that is not ignored, in input order.
expected_records ==
    LET kept == SelectSeq(log.lines,
                          LAMBDA raw : ~classified_ignored(rstrip(raw)))
    IN  [i \in 1..Len(kept) |-> reconcile(rstrip(kept[i]))]

\* C24: as long as no pull aborts, the records the pulls have returned are,
\* in input order, the reconciled field lists of exactly the lines read
\* that are not ignored: none lost, repeated or out of order; and
\* data_lines_passed is the number of records returned.
C24_RecordsAreTheAcceptedLines ==
    (log.on /\ no_abort)
    => /\ log.records = expected_records
       /\ data_lines_passed = Len(log.records)

\* The data lines the source may still deliver.
remaining == MaxLines - data_lines_read

\* One pass of the loop takes one line and ends the pull or goes on with
\* fewer lines remaining.
one_line_per_pass ==
    /\ \A raw \in DataLines :
          next_item(raw)
          => /\ consumed' = consumed + 1
             /\ remaining' = remaining - 1
             /\ pull' \in {"running", "returned", "ValueError", "IndexError"}
    /\ (pull' = "running") => (remaining' < remaining)

\* C27: every pull on a finite source terminates: each pass of the loop
\* takes one line from the source, and the pull ends by returning a
\* record, by raising, or by signalling exhaustion, after at most as many
\* reads as lines remain, plus one.
C27_EveryPullTerminates ==
    /\ [][one_line_per_pass]_vars
    /\ [](remaining >= 0)
    /\ (pull = "running")
          ~> (pull \in {"returned", "ValueError", "IndexError",
                        "StopIteration"})

\* One pull of a silent reader went through every line of the file,
\* ignoring each, and ended at the end of the file.
C27_Witness ==
    /\ error_action = "SILENT"
    /\ pull = "StopIteration"
    /\ data_lines_read = MaxLines
    /\ data_lines_ignored = MaxLines
    /\ source = "closed"

====
